---- MODULE Spec2Model ----
(***************************************************************************)
(* SmartDiago (src/app.py): a Streamlit script.  Every operator            *)
(* interaction (a widget edit or a button click) re-executes the whole     *)
(* script top to bottom against st.session_state.  One action of this      *)
(* module is one such script run: the widget assignments the run performs,  *)
(* the upload block, and the handler of the one button that was clicked.    *)
(*                                                                         *)
(* Text areas are declared with value=st.session_state.<field> and their    *)
(* return value is written back to the same field on every run, so the      *)
(* field and the widget hold the same text after each run; an edit is a     *)
(* run in which the widget returns a new text.                              *)
(***************************************************************************)
EXTENDS Integers, Sequences, FiniteSets, TLC

VARIABLES
    API_KEY,             \* line 37: the configured credential ("" = none)
    patient,             \* st.session_state.patient, an ordered dict
    symptoms_text,       \* st.session_state.symptoms_text
    initial_diag,        \* st.session_state.initial_diag
    doctor_notes,        \* st.session_state.doctor_notes
    test_recs,           \* st.session_state.test_recs
    uploaded_results,    \* st.session_state.uploaded_results
    final_diag,          \* st.session_state.final_diag
    final_prescription,  \* st.session_state.final_prescription
    followup,            \* st.session_state.followup
    timeline,            \* st.session_state.timeline
    last_report,         \* st.session_state.last_report (<<>> = key absent)
    uploaded_files,      \* files held by the results uploader widget (line 251)
    clicked,             \* the button whose st.button(...) returned True in the last run
    response,            \* what requests.post (line 64) produced in the last run
    notices,             \* the st.success/error/warning messages of the last run
    reruns               \* number of script runs of the session so far

vars == <<API_KEY, patient, symptoms_text, initial_diag, doctor_notes, test_recs,
          uploaded_results, final_diag, final_prescription, followup, timeline,
          last_report, uploaded_files, clicked, response, notices, reruns>>

stages == <<symptoms_text, initial_diag, doctor_notes, test_recs, final_diag,
            final_prescription, followup>>

-----------------------------------------------------------------------------
(* Bounds of the model *)

MaxReruns == 4       \* script runs per explored session

-----------------------------------------------------------------------------
(* Input domains *)

NoKey == ""
Keys == {NoKey, "xai-key"}

SymptomTexts == {"", "fever 3 days"}
SymptomFiles == {[decodes |-> TRUE, text |-> "cough 1 week"],
                 [decodes |-> FALSE, text |-> ""]}
NoteTexts == {"", "no complaints"}
PrescriptionTexts == {"", "rest and fluids"}

\* What the profile widgets hold when "Save profile" is clicked.
Profiles == {[name |-> "Ann", age |-> 41], [name |-> "", age |-> 30]}

\* Files the operator can put into the results uploader.
ResultFiles ==
    {[name |-> "xray.png", suffix |-> ".png", type |-> "image/png", bytes |-> "PNG"],
     [name |-> "lab.PDF", suffix |-> ".PDF", type |-> "application/octet-stream",
      bytes |-> "%PDF"]}

\* Parsed JSON documents of the modelled responses.
DataOk == [choices |-> <<[message |-> [role |-> "assistant", content |-> "viral URI 60%"]]>>]
DataNoChoices == [choices |-> <<>>]
DataError == [error |-> "invalid key"]

\* What requests.post can produce: a response (status, text, whether the text
\* parses as JSON and to what), or an exception (timeout=30, connection error).
Responses ==
    {[kind |-> "response", status |-> 200, text |-> "{\"choices\":[{\"message\":{\"role\":\"assistant\",\"content\":\"viral URI 60%\"}}]}",
      parses |-> TRUE, data |-> DataOk],
     [kind |-> "response", status |-> 200, text |-> "{\"choices\":[]}",
      parses |-> TRUE, data |-> DataNoChoices],
     [kind |-> "response", status |-> 200, text |-> "<html>Bad Gateway</html>",
      parses |-> FALSE, data |-> DataError],
     [kind |-> "response", status |-> 401, text |-> "invalid key",
      parses |-> FALSE, data |-> DataError],
     [kind |-> "exception", status |-> 0, text |-> "timed out",
      parses |-> FALSE, data |-> DataError]}

-----------------------------------------------------------------------------
(* Helpers *)

\* Python's `a or b` on strings.
Or(a, b) == IF a # "" THEN a ELSE b

\* json.dumps(data, indent=2) on the JSON documents of the model.
JsonDumps(data) ==
    IF data = DataNoChoices THEN "{\n  \"choices\": []\n}"
    ELSE IF data = DataError THEN "{\n  \"error\": \"invalid key\"\n}"
    ELSE "{\n  \"choices\": [\n    {\n      \"message\": {\n        \"role\": \"assistant\",\n        \"content\": \"viral URI 60%\"\n      }\n    }\n  ]\n}"

\* data["choices"][0]["message"]["content"] raises no exception.
HasContent(data) ==
    /\ "choices" \in DOMAIN data
    /\ Len(data.choices) >= 1
    /\ "message" \in DOMAIN data.choices[1]
    /\ "content" \in DOMAIN data.choices[1].message

Raise(msg) == [raised |-> TRUE, value |-> msg]
Return(text) == [raised |-> FALSE, value |-> text]

\* No outbound call was made.
NoResponse ==
    [kind |-> "none", status |-> 0, text |-> "", parses |-> FALSE, data |-> DataError]

\* lines 52-64: requests.post is reached only with a credential.
Outcome(key, resp) == IF key = NoKey THEN NoResponse ELSE resp

\* Whether the last run made an outbound call.
called == response.kind # "none"

\* call_grok_chat without the status test of line 65: the body of any
\* response is handed back as the result.
call_grok_chat_AnyStatus(key, resp) ==
    IF key = NoKey THEN Raise("Missing GROQ_API_KEY. See README / app instructions.")
    ELSE IF resp.kind = "exception" THEN Raise(resp.text)
    ELSE IF ~resp.parses THEN Return(resp.text)
    ELSE IF HasContent(resp.data) THEN Return(resp.data.choices[1].message.content)
    ELSE Return(JsonDumps(resp.data))

\* call_grok_chat: the returned text, or the exception raised.
call_grok_chat(key, resp) ==
    IF key = NoKey THEN Raise("Missing GROQ_API_KEY. See README / app instructions.")
    ELSE IF resp.kind = "exception" THEN Raise(resp.text)
    ELSE IF resp.status # 200
        THEN Raise("API error " \o ToString(resp.status) \o ": " \o resp.text)
    ELSE IF ~resp.parses THEN Raise("Expecting value: line 1 column 1 (char 0)")
    ELSE IF HasContent(resp.data) THEN Return(resp.data.choices[1].message.content)
    ELSE Return(JsonDumps(resp.data))

-----------------------------------------------------------------------------
(* The patient record: a Python dict, kept as the ordered list of its items. *)
(* Numbers are held in the text form the report and the prompts print.      *)

Item(k, v) == [k |-> k, v |-> v]

DictKeys(d) == {d[i].k : i \in DOMAIN d}

\* d[k] = v: an existing key keeps its place, a new key goes last.
DictSet(d, k, v) ==
    IF k \in DictKeys(d)
        THEN [i \in DOMAIN d |-> IF d[i].k = k THEN Item(k, v) ELSE d[i]]
        ELSE Append(d, Item(k, v))

\* d.update(items), items in order.
RECURSIVE DictUpdate(_, _)
DictUpdate(d, items) ==
    IF items = <<>> THEN d
    ELSE DictUpdate(DictSet(d, Head(items).k, Head(items).v), Tail(items))

InitialPatient ==
    <<Item("Name", ""), Item("Age", "30"), Item("Gender", "Male"),
      Item("Location", ""), Item("Past History", "")>>

\* The items "Save profile" writes: the values of the profile widgets.
ProfileItems(p) ==
    <<Item("Name", p.name), Item("Age", ToString(p.age)), Item("Gender", "Male"),
      Item("Location", ""), Item("Past History", ""), Item("Calories", "2000"),
      Item("Steps", "5000"), Item("Sleep", "7.0"), Item("HeartRate", "72")>>

-----------------------------------------------------------------------------
(* Uploaded results *)

\* str.lower() on the filename suffixes of the model.
Lower(s) == IF s = ".PDF" THEN ".pdf" ELSE s

\* line 257: the kind recorded for an uploaded file.
Ftype(f) ==
    IF f.type = "application/pdf" \/ Lower(f.suffix) = ".pdf" THEN "pdf" ELSE "image"

UploadEntry(f) == [name |-> f.name, bytes |-> f.bytes, type |-> Ftype(f)]

\* lines 252-259: every file the widget holds is appended, on every run.
ReadUploads(results, files) ==
    results \o [i \in 1..Len(files) |-> UploadEntry(files[i])]

\* line 263
UploadNotice(files) ==
    IF Len(files) > 0
        THEN <<[level |-> "success",
                text |-> "Added " \o ToString(Len(files)) \o " file(s)."]>>
        ELSE <<>>

\* "\n".join(lines)
RECURSIVE Join(_)
Join(lines) ==
    IF lines = <<>> THEN ""
    ELSE IF Len(lines) = 1 THEN lines[1]
    ELSE lines[1] \o "\n" \o Join(Tail(lines))

\* line 286
UploadsSummary(results) ==
    Or(Join([i \in 1..Len(results) |->
                results[i].name \o " (" \o results[i].type \o ")"]), "None")

-----------------------------------------------------------------------------
(* Timeline and report *)

Entry(title, content) == [title |-> title, content |-> content]

\* An append that skips an entry the timeline already holds.
CommitDedup(tl, title, content) ==
    IF \E i \in DOMAIN tl : tl[i] = Entry(title, content) THEN tl
    ELSE Append(tl, Entry(title, content))

\* An append that rewrites the entry of the same title when there is one.
CommitUpsert(tl, title, content) ==
    IF \E i \in DOMAIN tl : tl[i].title = title
        THEN [i \in DOMAIN tl |->
                IF tl[i].title = title THEN Entry(title, content) ELSE tl[i]]
        ELSE Append(tl, Entry(title, content))

\* st.session_state.timeline.append({...})
Commit(tl, title, content) == Append(tl, Entry(title, content))

\* An automatic timeline that leaves out the stages without content.
AutoTimelineNonEmpty(initial, notes, tests, prescription, final) ==
    SelectSeq(<<Entry("Initial AI Diagnostic", initial),
                Entry("Doctor Notes", notes),
                Entry("Tests & Radiology", tests),
                Entry("Final Diagnostic & Prescription", Or(prescription, final))>>,
              LAMBDA e : e.content # "")

\* lines 327-332: the timeline built when none was committed.
AutoTimeline(initial, notes, tests, prescription, final) ==
    <<Entry("Initial AI Diagnostic", initial),
      Entry("Doctor Notes", notes),
      Entry("Tests & Radiology", tests),
      Entry("Final Diagnostic & Prescription", Or(prescription, final))>>

\* lines 325-332: the timeline the handler leaves in the session and renders.
ReportTimeline(tl, initial, notes, tests, prescription, final) ==
    IF tl = <<>> THEN AutoTimeline(initial, notes, tests, prescription, final)
    ELSE tl

\* make_pdf_report: the text blocks written to the document, in order.  The
\* "Generated:" line carries the clock, which is no part of the state.
make_pdf_report(p, tl, files) ==
    <<"SmartDiago - Patient Report", "Generated: <now>", "Patient Information:">>
    \o [i \in 1..Len(p) |-> p[i].k \o ": " \o p[i].v]
    \o [i \in 1..(2 * Len(tl)) |->
            IF i % 2 = 1 THEN tl[(i + 1) \div 2].title ELSE tl[i \div 2].content]
    \o (IF files # <<>>
            THEN <<"Uploaded Files:">>
                 \o [i \in 1..Len(files) |->
                        "- " \o files[i].name \o " (" \o files[i].type \o ")"]
            ELSE <<>>)

-----------------------------------------------------------------------------
(* Notices *)

Success(text) == [level |-> "success", text |-> text]
Error(text) == [level |-> "error", text |-> text]
Warning(text) == [level |-> "warning", text |-> text]
Info(text) == [level |-> "info", text |-> text]

\* The except branch of the four generation handlers.
GrokError(out) == Error("Error calling Grok API: " \o out.value)

\* try: stage = call_grok_chat(...); st.success(...) / except: st.error(...)
Generated(old, out) == IF out.raised THEN old ELSE out.value
GenNotice(out, text) == IF out.raised THEN GrokError(out) ELSE Success(text)

\* The guard of line 228 with `or` in place of `and`.
TestsBlockedEither(symptoms, initial) == symptoms = "" \/ initial = ""

\* line 228
TestsBlocked(symptoms, initial) == symptoms = "" /\ initial = ""

-----------------------------------------------------------------------------
(* Initial state: a fresh session, lines 123-148.  The credential is read   *)
(* once at startup and never changes.                                       *)

MissingKeyNotice ==
    Error("GROQ_API_KEY not found. Set GROQ_API_KEY in Streamlit Secrets or as an environment variable.")

Init ==
    /\ API_KEY \in Keys
    /\ patient = InitialPatient
    /\ symptoms_text = ""
    /\ initial_diag = ""
    /\ doctor_notes = ""
    /\ test_recs = ""
    /\ uploaded_results = <<>>
    /\ final_diag = ""
    /\ final_prescription = ""
    /\ followup = ""
    /\ timeline = <<>>
    /\ last_report = <<>>
    /\ uploaded_files = <<>>
    /\ clicked = "none"
    /\ response = NoResponse
    /\ notices = IF API_KEY = NoKey THEN <<MissingKeyNotice>> ELSE <<>>
    /\ reruns = 0

-----------------------------------------------------------------------------
(* Script runs *)

\* lines 151-152: without a credential the run ends at st.stop(), before any
\* widget is declared and before any handler.
Stopped ==
    /\ API_KEY = NoKey
    /\ reruns < MaxReruns
    /\ reruns' = reruns + 1
    /\ clicked' = "none"
    /\ response' = NoResponse
    /\ notices' = <<MissingKeyNotice>>
    /\ UNCHANGED <<API_KEY, patient, stages, uploaded_results, timeline,
                   last_report, uploaded_files>>

\* What every run past line 152 does: button `btn` returned True, the results
\* uploader holds `files` and the upload block (lines 252-263) reads them;
\* `pre` and `post` are the messages shown before and after that block.
ScriptRun(btn, files, pre, post) ==
    /\ API_KEY # NoKey
    /\ reruns < MaxReruns
    /\ reruns' = reruns + 1
    /\ clicked' = btn
    /\ uploaded_files' = files
    /\ uploaded_results' = ReadUploads(uploaded_results, files)
    /\ notices' = pre \o UploadNotice(files) \o post
    /\ UNCHANGED API_KEY

\* lines 173-178
SaveProfile(p) ==
    /\ ScriptRun("Save profile", uploaded_files, <<Success("Patient profile saved.")>>, <<>>)
    /\ patient' = DictUpdate(patient, ProfileItems(p))
    /\ response' = NoResponse
    /\ UNCHANGED <<stages, timeline, last_report>>

\* lines 182-191: a symptom file is put into the uploader.
UploadSymptoms(f) ==
    /\ ScriptRun("none", uploaded_files,
                 IF f.decodes THEN <<Success("Symptoms loaded from file.")>>
                 ELSE <<Error("Could not read file; please paste symptoms below.")>>,
                 <<>>)
    /\ symptoms_text' = IF f.decodes THEN f.text ELSE symptoms_text
    /\ response' = NoResponse
    /\ UNCHANGED <<patient, initial_diag, doctor_notes, test_recs, final_diag,
                   final_prescription, followup, timeline, last_report>>

\* lines 190-191: the symptoms text area returns a new text.
EditSymptoms(t) ==
    /\ ScriptRun("none", uploaded_files, <<>>, <<>>)
    /\ symptoms_text' = t
    /\ response' = NoResponse
    /\ UNCHANGED <<patient, initial_diag, doctor_notes, test_recs, final_diag,
                   final_prescription, followup, timeline, last_report>>

\* lines 193-212
GetInitialDiagnostic(resp) ==
    LET out == call_grok_chat(API_KEY, resp) IN
    /\ ScriptRun("2) Get initial diagnostic (AI)", uploaded_files,
                 <<Info("Calling Grok for initial diagnostic..."),
                   GenNotice(out, "Initial diagnostic generated.")>>, <<>>)
    /\ response' = Outcome(API_KEY, resp)
    /\ initial_diag' = Generated(initial_diag, out)
    /\ UNCHANGED <<patient, symptoms_text, doctor_notes, test_recs, final_diag,
                   final_prescription, followup, timeline, last_report>>

\* lines 220-221: the doctor notes text area returns a new text.
EditDoctorNotes(t) ==
    /\ ScriptRun("none", uploaded_files, <<>>, <<>>)
    /\ doctor_notes' = t
    /\ response' = NoResponse
    /\ UNCHANGED <<patient, symptoms_text, initial_diag, test_recs, final_diag,
                   final_prescription, followup, timeline, last_report>>

\* lines 222-223
SaveDoctorNotes ==
    /\ ScriptRun("Save doctor notes", uploaded_files, <<Success("Doctor notes saved.")>>, <<>>)
    /\ response' = NoResponse
    /\ UNCHANGED <<patient, stages, timeline, last_report>>

\* lines 227-243
GenerateTests(resp) ==
    LET out == call_grok_chat(API_KEY, resp)
        blocked == TestsBlocked(symptoms_text, initial_diag) IN
    /\ ScriptRun("Generate test & radiology recommendations", uploaded_files,
                 IF blocked
                     THEN <<Warning("Please provide symptoms and run initial diagnostic first.")>>
                     ELSE <<GenNotice(out, "Test & radiology recommendations generated.")>>,
                 <<>>)
    /\ response' = IF blocked THEN NoResponse ELSE Outcome(API_KEY, resp)
    /\ test_recs' = IF blocked THEN test_recs ELSE Generated(test_recs, out)
    /\ UNCHANGED <<patient, symptoms_text, initial_diag, doctor_notes, final_diag,
                   final_prescription, followup, timeline, last_report>>

\* line 251: the operator adds a file to the results uploader.
AddResultFile(f) ==
    /\ \A i \in DOMAIN uploaded_files : uploaded_files[i] # f
    /\ ScriptRun("none", Append(uploaded_files, f), <<>>, <<>>)
    /\ response' = NoResponse
    /\ UNCHANGED <<patient, stages, timeline, last_report>>

\* line 251: the operator removes the files from the results uploader.
ClearResultFiles ==
    /\ uploaded_files # <<>>
    /\ ScriptRun("none", <<>>, <<>>, <<>>)
    /\ response' = NoResponse
    /\ UNCHANGED <<patient, stages, timeline, last_report>>

\* lines 276-278
AddInitialDiagnostic ==
    /\ ScriptRun("Add: Initial AI diagnostic", uploaded_files, <<>>,
                 <<Success("Added initial diagnostic to timeline.")>>)
    /\ timeline' = Commit(timeline, "Initial AI Diagnostic", Or(initial_diag, "N/A"))
    /\ response' = NoResponse
    /\ UNCHANGED <<patient, stages, last_report>>

\* lines 279-281
AddDoctorNotes ==
    /\ ScriptRun("Add: Doctor notes", uploaded_files, <<>>,
                 <<Success("Added doctor notes to timeline.")>>)
    /\ timeline' = Commit(timeline, "Doctor Notes", Or(doctor_notes, "N/A"))
    /\ response' = NoResponse
    /\ UNCHANGED <<patient, stages, last_report>>

\* lines 282-284
AddTests ==
    /\ ScriptRun("Add: Tests & Radiology", uploaded_files, <<>>,
                 <<Success("Added tests & radiology to timeline.")>>)
    /\ timeline' = Commit(timeline, "Test & Radiology Recommendations", Or(test_recs, "N/A"))
    /\ response' = NoResponse
    /\ UNCHANGED <<patient, stages, last_report>>

\* lines 285-288: the summary is taken after this run's upload block.
AddUploadedResults ==
    /\ ScriptRun("Add: Uploaded Results summary", uploaded_files, <<>>,
                 <<Success("Added uploaded results to timeline.")>>)
    /\ timeline' = Commit(timeline, "Uploaded Results", UploadsSummary(uploaded_results'))
    /\ response' = NoResponse
    /\ UNCHANGED <<patient, stages, last_report>>

\* lines 292-309
GenerateFinal(resp) ==
    LET out == call_grok_chat(API_KEY, resp) IN
    /\ ScriptRun("Generate final diagnostic (AI)", uploaded_files, <<>>,
                 <<GenNotice(out, "Final diagnostic generated.")>>)
    /\ response' = Outcome(API_KEY, resp)
    /\ final_diag' = Generated(final_diag, out)
    /\ UNCHANGED <<patient, symptoms_text, initial_diag, doctor_notes, test_recs,
                   final_prescription, followup, timeline, last_report>>

\* lines 316-317: the prescription text area returns a new text.
EditPrescription(t) ==
    /\ ScriptRun("none", uploaded_files, <<>>, <<>>)
    /\ final_prescription' = t
    /\ response' = NoResponse
    /\ UNCHANGED <<patient, symptoms_text, initial_diag, doctor_notes, test_recs,
                   final_diag, followup, timeline, last_report>>

\* lines 318-320
SavePrescription ==
    /\ ScriptRun("Save final prescription to timeline", uploaded_files, <<>>,
                 <<Success("Saved final prescription to timeline.")>>)
    /\ timeline' = Commit(timeline, "Final Diagnostic & Prescription",
                          Or(final_prescription, final_diag))
    /\ response' = NoResponse
    /\ UNCHANGED <<patient, stages, last_report>>

\* lines 324-336.  `rendered` is whether make_pdf_report returned: the PDF
\* library raises on text outside its encoding, after line 327 has run; the
\* exception ends the run and Streamlit displays it.
GenerateReport(rendered) ==
    LET tl == ReportTimeline(timeline, initial_diag, doctor_notes, test_recs,
                             final_prescription, final_diag) IN
    /\ ScriptRun("Generate & preview report (PDF)", uploaded_files, <<>>,
                 IF rendered
                     THEN <<Success("PDF report generated. Use the download button below.")>>
                     ELSE <<[level |-> "exception", text |-> "UnicodeEncodeError"]>>)
    /\ timeline' = tl
    /\ last_report' = IF rendered
                          THEN make_pdf_report(patient, tl, uploaded_results')
                          ELSE last_report
    /\ response' = NoResponse
    /\ UNCHANGED <<patient, stages>>

\* lines 344-357
GenerateFollowup(resp) ==
    LET out == call_grok_chat(API_KEY, resp) IN
    /\ ScriptRun("Generate follow-up plan (AI)", uploaded_files, <<>>,
                 <<GenNotice(out, "Follow-up plan generated.")>>)
    /\ response' = Outcome(API_KEY, resp)
    /\ followup' = Generated(followup, out)
    /\ UNCHANGED <<patient, symptoms_text, initial_diag, doctor_notes, test_recs,
                   final_diag, final_prescription, timeline, last_report>>

Next ==
    \/ Stopped
    \/ \E p \in Profiles : SaveProfile(p)
    \/ \E f \in SymptomFiles : UploadSymptoms(f)
    \/ \E t \in SymptomTexts : EditSymptoms(t)
    \/ \E r \in Responses : GetInitialDiagnostic(r)
    \/ \E t \in NoteTexts : EditDoctorNotes(t)
    \/ SaveDoctorNotes
    \/ \E r \in Responses : GenerateTests(r)
    \/ \E f \in ResultFiles : AddResultFile(f)
    \/ ClearResultFiles
    \/ AddInitialDiagnostic
    \/ AddDoctorNotes
    \/ AddTests
    \/ AddUploadedResults
    \/ \E r \in Responses : GenerateFinal(r)
    \/ \E t \in PrescriptionTexts : EditPrescription(t)
    \/ SavePrescription
    \/ \E b \in BOOLEAN : GenerateReport(b)
    \/ \E r \in Responses : GenerateFollowup(r)

Spec == Init /\ [][Next]_vars

-----------------------------------------------------------------------------
(* Vocabulary of the properties *)

InitialButton == "2) Get initial diagnostic (AI)"
TestsButton == "Generate test & radiology recommendations"
FinalButton == "Generate final diagnostic (AI)"
FollowupButton == "Generate follow-up plan (AI)"
ReportButton == "Generate & preview report (PDF)"

GenerationButtons == {InitialButton, TestsButton, FinalButton, FollowupButton}

CommitButtons ==
    {"Add: Initial AI diagnostic", "Add: Doctor notes", "Add: Tests & Radiology",
     "Add: Uploaded Results summary", "Save final prescription to timeline"}

\* The stage a generation button writes.
Target(btn) ==
    IF btn = InitialButton THEN initial_diag
    ELSE IF btn = TestsButton THEN test_recs
    ELSE IF btn = FinalButton THEN final_diag
    ELSE followup

Shown(level) == \E i \in DOMAIN notices : notices[i].level = level

\* The last run rendered a report (line 336).
ReportRendered ==
    \E i \in DOMAIN notices :
        notices[i].text = "PDF report generated. Use the download button below."

\* The service answered with a status other than 200.
NonSuccess(r) == r.kind = "response" /\ r.status # 200

\* The service answered 200 and choices[0].message.content is not in the answer.
SuccessWithoutText(r) ==
    r.kind = "response" /\ r.status = 200 /\ ~(r.parses /\ HasContent(r.data))

\* The service answered 200 with the expected text.
SuccessWithText(r) ==
    r.kind = "response" /\ r.status = 200 /\ r.parses /\ HasContent(r.data)

-----------------------------------------------------------------------------
(* C1: every commit action appends exactly one entry at the end of the     *)
(* timeline, carrying the title of its stage and the stage's current       *)
(* content, and keeps the entries before it; nothing is merged or skipped   *)
(* when an identical entry is already there.                                *)
C1_CommitAppendsOne ==
    [][clicked' \in CommitButtons =>
        /\ Len(timeline') = Len(timeline) + 1
        /\ SubSeq(timeline', 1, Len(timeline)) = timeline
        /\ timeline'[Len(timeline')] =
             (IF clicked' = "Add: Initial AI diagnostic"
                THEN [title |-> "Initial AI Diagnostic",
                      content |-> IF initial_diag' = "" THEN "N/A" ELSE initial_diag']
              ELSE IF clicked' = "Add: Doctor notes"
                THEN [title |-> "Doctor Notes",
                      content |-> IF doctor_notes' = "" THEN "N/A" ELSE doctor_notes']
              ELSE IF clicked' = "Add: Tests & Radiology"
                THEN [title |-> "Test & Radiology Recommendations",
                      content |-> IF test_recs' = "" THEN "N/A" ELSE test_recs']
              ELSE IF clicked' = "Add: Uploaded Results summary"
                THEN [title |-> "Uploaded Results",
                      content |-> UploadsSummary(uploaded_results')]
              ELSE [title |-> "Final Diagnostic & Prescription",
                    content |-> IF final_prescription' = "" THEN final_diag'
                                ELSE final_prescription'])]_vars

\* The same stage was committed twice with unchanged content: two equal
\* entries stand next to each other.
C1_Witness ==
    /\ clicked = "Add: Doctor notes"
    /\ doctor_notes = "no complaints"
    /\ \E i \in 1..(Len(timeline) - 1) :
          timeline[i] = timeline[i + 1] /\ timeline[i].content = "no complaints"

(* C2: an entry that is in the timeline stays where it is with the content  *)
(* it has, whatever the next run does: editing or regenerating a stage      *)
(* never reaches an entry committed before.                                 *)
C2_EntriesFrozen ==
    [][\A i \in 1..Len(timeline) :
          i <= Len(timeline') /\ timeline'[i] = timeline[i]]_vars

\* Doctor notes were committed and edited afterwards: the entry still has
\* the committed text, the stage has another.
C2_Witness ==
    /\ clicked = "none"
    /\ doctor_notes = ""
    /\ \E i \in DOMAIN timeline :
          timeline[i] = [title |-> "Doctor Notes", content |-> "no complaints"]

(* C3: a generation run answered with a non-success status leaves the       *)
(* stage it targets as it was and shows the operator an error carrying the  *)
(* status and the body.                                                     *)
C3_FailureKeepsStage ==
    [][\A b \in GenerationButtons : (clicked' = b /\ NonSuccess(response')) =>
        /\ Target(b)' = Target(b)
        /\ \E i \in DOMAIN notices' :
              notices'[i] = [level |-> "error",
                             text |-> "Error calling Grok API: API error "
                                      \o ToString(response'.status) \o ": "
                                      \o response'.text]]_vars

\* A 401 "invalid key" answered a regeneration of a stage that had content.
C3_Witness ==
    /\ clicked = InitialButton
    /\ response.status = 401
    /\ response.text = "invalid key"
    /\ initial_diag = "viral URI 60%"

(* C4: a report run that finds the timeline empty renders the four fixed    *)
(* stages in the order initial diagnostic, doctor notes, tests, final       *)
(* diagnosis/prescription with the stage store's current content (empty    *)
(* strings included); a report run that finds entries renders exactly      *)
(* those.                                                                   *)
C4_AutoPopulate ==
    [][clicked' = ReportButton =>
        /\ timeline = <<>> =>
             timeline' = <<[title |-> "Initial AI Diagnostic", content |-> initial_diag'],
                           [title |-> "Doctor Notes", content |-> doctor_notes'],
                           [title |-> "Tests & Radiology", content |-> test_recs'],
                           [title |-> "Final Diagnostic & Prescription",
                            content |-> IF final_prescription' = "" THEN final_diag'
                                        ELSE final_prescription']>>
        /\ timeline # <<>> => timeline' = timeline
        /\ ReportRendered' =>
             last_report' = make_pdf_report(patient', timeline', uploaded_results')]_vars

\* A report was rendered from an empty timeline while some stages were empty
\* and one was not.
C4_Witness ==
    /\ clicked = ReportButton
    /\ ReportRendered
    /\ Len(timeline) = 4
    /\ timeline[3] = [title |-> "Tests & Radiology", content |-> ""]
    /\ timeline[2].content = "no complaints"
    /\ last_report # <<>>

(* C10: the test-recommendation run makes no call exactly when symptoms and *)
(* initial diagnostic are both empty, and then warns and leaves test_recs;  *)
(* the other three generation runs always make their call.                  *)
C10_OnlyTestsBlocked ==
    [][/\ clicked' = TestsButton =>
            /\ called' <=> ~(symptoms_text' = "" /\ initial_diag' = "")
            /\ ~called' => (test_recs' = test_recs /\ Shown("warning")')
       /\ clicked' \in GenerationButtons \ {TestsButton} => called']_vars

\* Recommendations that exist were not regenerated because both inputs had
\* become empty.
C10_Witness ==
    /\ clicked = TestsButton
    /\ ~called
    /\ Shown("warning")
    /\ test_recs # ""

-----------------------------------------------------------------------------
(* C5: a report run leaves the patient record, the timeline and the         *)
(* uploaded-results list as they were before the run.                       *)
C5_RenderMutatesNothing ==
    [][clicked' = ReportButton =>
        /\ patient' = patient
        /\ timeline' = timeline
        /\ uploaded_results' = uploaded_results]_vars

(* C6: without a credential no generation makes a call or changes a stage,  *)
(* and saving the profile, entering symptoms, editing the notes, committing *)
(* to the timeline and rendering the report can still be done.              *)
C6_WorkflowUsableWithoutKey ==
    (API_KEY = NoKey /\ reruns < MaxReruns) =>
        /\ ~called
        /\ stages = <<"", "", "", "", "", "", "">>
        /\ ENABLED (\E p \in Profiles : SaveProfile(p))
        /\ ENABLED (\E t \in SymptomTexts : EditSymptoms(t))
        /\ ENABLED (\E t \in NoteTexts : EditDoctorNotes(t))
        /\ ENABLED AddDoctorNotes
        /\ ENABLED (\E b \in BOOLEAN : GenerateReport(b))

(* C7: a generation run answered 200 without choices[0].message.content     *)
(* stores the response body (as received, or as json.dumps prints it) in    *)
(* the stage it targets.                                                    *)
C7_MalformedKeepsBody ==
    [][\A b \in GenerationButtons : (clicked' = b /\ SuccessWithoutText(response')) =>
          \/ Target(b)' = response'.text
          \/ response'.parses /\ Target(b)' = JsonDumps(response'.data)]_vars

(* C8: no two entries of the uploaded-results list have the same filename.  *)
C8_UniqueFilenames ==
    \A i, j \in DOMAIN uploaded_results :
        uploaded_results[i].name = uploaded_results[j].name => i = j

(* C9: a generation run that succeeds changes the stage it targets and      *)
(* nothing else of the stage store, the patient record, the uploaded        *)
(* results and the timeline.                                                *)
C9_GenerationWritesOneStage ==
    [][(clicked' \in GenerationButtons /\ SuccessWithText(response')) =>
        /\ patient' = patient
        /\ uploaded_results' = uploaded_results
        /\ timeline' = timeline
        /\ symptoms_text' = symptoms_text
        /\ doctor_notes' = doctor_notes
        /\ final_prescription' = final_prescription
        /\ clicked' # InitialButton => initial_diag' = initial_diag
        /\ clicked' # TestsButton => test_recs' = test_recs
        /\ clicked' # FinalButton => final_diag' = final_diag
        /\ clicked' # FollowupButton => followup' = followup]_vars

====
